---- MODULE Spec2Model ----
(***************************************************************************)
(* Model of packages/core/src/browser/menu/browser-menu-plugin.ts:         *)
(* BrowserMainMenuFactory, DynamicMenuBarWidget, DynamicMenuWidget and     *)
(* WidgetOpenHandler.                                                      *)
(*                                                                         *)
(* Collaborators that the file only consumes are modelled by their         *)
(* interface: the menu model (CompositeMenuNode / ActionMenuNode trees),   *)
(* the command registry (getCommand, isVisible), the keybinding registry   *)
(* the Phosphor widgets (Menu, MenuBar, CommandRegistry, Signal), the      *)
(* widget manager and the application shell.                               *)
(***************************************************************************)
EXTENDS Integers, Sequences, FiniteSets, Bags, TLC

\* ------------------------------------------------------------------ bounds
\* Largest number of nodes below the root of the menu model.
MaxNodes == 4
\* Largest number of nodes below the root when the model holds groups only.
MaxGroupNodes == 5
\* Largest number of DynamicMenuBarWidget instances constructed.
MaxBars == 2
\* Largest number of aboutToClose connections kept on one menu widget.
MaxSlots == 2
\* Largest number of changes of the model and of the command and keybinding
\* state made while menu widgets exist.
MaxChanges == 1
\* Largest number of nodes below the root when the keybindings vary.
MaxKeyNodes == 2
\* Largest number of widgets the widget manager creates.
MaxWidgets == 1
\* Largest number of calls of WidgetOpenHandler.open awaiting at one time.
MaxPending == 1

\* ------------------------------------------------------------- value sets
Cmds == {"c1", "c2"}
CmdStates == {"unregistered", "hidden", "visible"}
Bindings == {[ctrl |-> TRUE, key |-> "s"], [ctrl |-> FALSE, key |-> "f2"]}
NoCmd == "-"

VARIABLES
    menuModel,      \* the CompositeMenuNode registered for MAIN_MENU_BAR and everything below it
    commandState,   \* CommandRegistry: per command id, unregistered / registered+hidden / registered+visible
    keybindings,    \* KeybindingRegistry: per command id, the ordered bindings
    ctx,            \* the DynamicMenuWidget last returned by createContextMenu
    bars,           \* every DynamicMenuBarWidget constructed so far, in order
    hook,           \* index in bars of the `this` captured by DynamicMenuBarWidget.prototype._openChildMenu (0: unset)
    activeElement,  \* window.document.activeElement
    domAttached,    \* the plain DOM elements currently attached to the document
    last,           \* observation of the last operation (what it touched, in order)
    changes,        \* number of counted changes of the model and of the collaborators
    widgetManager,  \* WidgetManager: per widget-options key, the widget it holds and how many it created
    shell,          \* ApplicationShell: the widgets attached to it
    pending,        \* the calls of WidgetOpenHandler.open that are awaiting getOrCreateWidget (a bag)
    opened          \* observation of the call of open that just finished, if the last step was that

openerVars == <<widgetManager, shell, pending, opened>>

vars == <<menuModel, commandState, keybindings, ctx, bars, hook, activeElement,
          domAttached, last, changes, openerVars>>

\* ------------------------------------------------------------- menu model
ActionMenuNode(c) ==
    [kind |-> "action", isSubmenu |-> FALSE, commandId |-> c, children |-> <<>>]

CompositeMenuNode(sub) ==
    [kind |-> "composite", isSubmenu |-> sub, commandId |-> NoCmd, children |-> <<>>]

RECURSIVE NodeAt(_, _)
NodeAt(node, path) ==
    IF path = <<>> THEN node ELSE NodeAt(node.children[Head(path)], Tail(path))

RECURSIVE CompositePaths(_, _)
\* Paths (child indices from the root) of every composite node of the tree.
CompositePaths(node, here) ==
    IF node.kind # "composite" THEN {}
    ELSE {here} \cup UNION { CompositePaths(node.children[i], Append(here, i))
                             : i \in 1..Len(node.children) }

RECURSIVE NodeCount(_)
NodeCount(node) ==
    LET RECURSIVE Sum(_)
        Sum(i) == IF i = 0 THEN 0 ELSE NodeCount(node.children[i]) + Sum(i - 1)
    IN 1 + Sum(Len(node.children))

RECURSIVE AddNode(_, _, _)
AddNode(node, path, new) ==
    IF path = <<>>
    THEN [node EXCEPT !.children = Append(@, new)]
    ELSE [node EXCEPT !.children[Head(path)] = AddNode(@, Tail(path), new)]

\* ------------------------------------------------- command collaborators
\* CommandRegistry.getCommand(id): defined exactly for the registered ids.
getCommand(id) == commandState[id] # "unregistered"

\* CommandRegistry.isVisible(id), as asked by the callback of line 87.
registryIsVisible(id) == commandState[id] = "visible"

\* Keybinding.acceleratorFor(binding): the display form of a binding.
acceleratorFor(binding) ==
    IF binding.ctrl THEN <<"Ctrl", binding.key>> ELSE <<binding.key>>

\* ------------------------------------------- BrowserMainMenuFactory (l.61-103)
\* A PhosphorCommandRegistry: `ids` the commands it holds, `keyBindings` the
\* addKeyBinding calls in order, `addCommandCalls` the addCommand calls in
\* order, `threw` whether an addCommand call threw (id already registered),
\* `forceVisible` whether isVisible was replaced by () => true (l.42).
PhosphorCommandRegistry ==
    [ids |-> {}, keyBindings |-> <<>>, addCommandCalls |-> <<>>,
     threw |-> FALSE, forceVisible |-> FALSE]

\* Variant: the last keybinding is taken instead of the first.
addPhosphorCommandLastBinding(commands, menu) ==
    IF ~getCommand(menu.commandId) THEN commands
    ELSE IF menu.commandId \in commands.ids
    THEN [commands EXCEPT !.addCommandCalls = Append(@, menu.commandId),
                          !.threw = TRUE]
    ELSE LET bindings == keybindings[menu.commandId]
             added == [commands EXCEPT !.ids = @ \cup {menu.commandId},
                                       !.addCommandCalls = Append(@, menu.commandId)]
         IN IF Len(bindings) > 0
            THEN [added EXCEPT !.keyBindings =
                     Append(@, [command |-> menu.commandId,
                                keys |-> acceleratorFor(bindings[Len(bindings)])])]
            ELSE added

\* l.77-103. CommandRegistry.addCommand throws when the id is already registered.
addPhosphorCommand(commands, menu) ==
    IF ~getCommand(menu.commandId) THEN commands
    ELSE IF menu.commandId \in commands.ids
    THEN [commands EXCEPT !.addCommandCalls = Append(@, menu.commandId),
                          !.threw = TRUE]
    ELSE LET bindings == keybindings[menu.commandId]
             added == [commands EXCEPT !.ids = @ \cup {menu.commandId},
                                       !.addCommandCalls = Append(@, menu.commandId)]
         IN IF Len(bindings) > 0
            THEN [added EXCEPT !.keyBindings =
                     Append(@, [command |-> menu.commandId,
                                keys |-> acceleratorFor(bindings[1])])]
            ELSE added

RECURSIVE addPhosphorCommands(_, _)
addPhosphorCommands(commands, menu) ==
    LET RECURSIVE Loop(_, _)
        Loop(cs, i) ==
            IF i > Len(menu.children) \/ cs.threw THEN cs
            ELSE LET child == menu.children[i] IN
                 IF child.kind = "action"
                 THEN Loop(addPhosphorCommand(cs, child), i + 1)
                 ELSE Loop(addPhosphorCommands(cs, child), i + 1)
    IN Loop(commands, 1)

createPhosporCommands(menu) == addPhosphorCommands(PhosphorCommandRegistry, menu)

\* ------------------------------------------------ DynamicMenuWidget (l.123-216)
\* commands.isVisible(id) of the registry a widget was given: the override of
\* l.42 when present, else the isVisible callback of l.87 for a command the
\* registry holds, and false for an id it does not hold.
\* Variant: the registry's own isVisible callback is not asked.
isVisibleUnasked(commands, id) ==
    \/ commands.forceVisible
    \/ id \in commands.ids

isVisible(commands, id) ==
    \/ commands.forceVisible
    \/ id \in commands.ids /\ registryIsVisible(id)

\* l.167: item.children.length > 0
hasChildren(item) == Len(item.children) > 0

\* Variant: a submenu is never taken to be empty.
neverEmptySubmenu(submenu) == FALSE

\* l.173: submenu.items.length === 0
isEmptySubmenu(submenu) == Len(submenu.items) = 0

\* l.185: submenu.length === 0
isEmptyGroup(submenu) == Len(submenu) = 0

\* Variant: a separator is put above every group.
alwaysSeparator(items) == TRUE

\* l.189: items.length > 0
needsSeparator(items) == Len(items) > 0

CommandItem(c) == [type |-> "command", command |-> c, menu |-> <<>>, items |-> <<>>]
SeparatorItem == [type |-> "separator", command |-> NoCmd, menu |-> <<>>, items |-> <<>>]
\* A submenu item holds the nested DynamicMenuWidget: its node and its items.
SubmenuItem(path, its) == [type |-> "submenu", command |-> NoCmd, menu |-> path, items |-> its]

\* ------------------------------------------------------------ DOM elements
El(name) == [kind |-> name, bar |-> 0, index |-> 0]
Null == El("null")
Body == El("body")
PlainElements == {El("editor"), El("side")}
CtxRef == El("ctx")
BarRef(b, i) == [kind |-> "bar", bar |-> b, index |-> i]
NoRef == El("none")

\* A MenuWidget before any item is added (super(options) of l.126).
MenuWidget(path, options) ==
    [menu |-> path,               \* the CompositeMenuNode it renders (its place in the model)
     options |-> options,         \* options.commands
     items |-> <<>>,
     attached |-> FALSE,          \* Widget.isAttached
     slots |-> <<>>,              \* the previouslyActive of each cb connected to aboutToClose
     openedFrom |-> Null]         \* while attached: activeElement just before it became attached

RECURSIVE buildSubMenus(_, _, _, _)
RECURSIVE updateSubMenus(_, _, _)
RECURSIVE DynamicMenuWidget(_, _, _)

\* l.160-215. `path` is the position of `menu` in the model; it only names
\* the node a nested widget is constructed for.
buildSubMenus(items, menu, commands, path) ==
    LET RECURSIVE Loop(_, _)
        Loop(acc, i) ==
            IF i > Len(menu.children) THEN acc
            ELSE LET item == menu.children[i] IN
                 IF item.kind = "composite"
                 THEN IF hasChildren(item)
                      THEN IF item.isSubmenu
                           THEN LET submenu == DynamicMenuWidget(item, commands, Append(path, i)) IN
                                IF isEmptySubmenu(submenu) THEN Loop(acc, i + 1)
                                ELSE Loop(Append(acc, SubmenuItem(submenu.menu, submenu.items)), i + 1)
                           ELSE LET submenu == buildSubMenus(<<>>, item, commands, Append(path, i)) IN
                                IF isEmptyGroup(submenu) THEN Loop(acc, i + 1)
                                ELSE IF needsSeparator(acc)
                                     THEN Loop(acc \o <<SeparatorItem>> \o submenu, i + 1)
                                     ELSE Loop(acc \o submenu, i + 1)
                      ELSE Loop(acc, i + 1)
                 ELSE IF ~isVisible(commands, item.commandId) THEN Loop(acc, i + 1)
                      ELSE Loop(Append(acc, CommandItem(item.commandId)), i + 1)
    IN Loop(items, 1)

\* l.149-158: every built item is added to the parent widget.
updateSubMenus(parent, menu, commands) ==
    [parent EXCEPT !.items = @ \o buildSubMenus(<<>>, menu, commands, parent.menu)]

\* new DynamicMenuWidget(menu, options): the constructor of l.125-131.
DynamicMenuWidget(menu, options, path) ==
    updateSubMenus(MenuWidget(path, options), menu, options)

\* Variant: the items of the previous run are kept.
keepItems(w) == w

\* MenuWidget.clearItems()
clearItems(w) == [w EXCEPT !.items = <<>>]

\* l.133-136
aboutToShow(w) == updateSubMenus(clearItems(w), NodeAt(menuModel, w.menu), w.options)

\* ------------------------------------------------ widgets and the document
\* The widgets and the focus, as one value that the nested calls of an
\* operation pass along: `shown` the widgets aboutToShow ran on, `focusCalls`
\* the elements focus() was called on, `threw` whether a cb threw.
World ==
    [ctx |-> ctx, bars |-> bars, active |-> activeElement,
     shown |-> <<>>, focusCalls |-> <<>>, threw |-> FALSE]

WExists(w, ref) ==
    \/ ref.kind = "ctx" /\ Len(w.ctx) = 1
    \/ ref.kind = "bar" /\ ref.bar \in 1..Len(w.bars)
                        /\ ref.index \in 1..Len(w.bars[ref.bar].menus)

WGet(w, ref) ==
    IF ref.kind = "ctx" THEN w.ctx[1] ELSE w.bars[ref.bar].menus[ref.index]

WSet(w, ref, x) ==
    IF ref.kind = "ctx" THEN [w EXCEPT !.ctx = <<x>>]
    ELSE [w EXCEPT !.bars[ref.bar].menus[ref.index] = x]

\* Whether element e is in the document: only then does e.focus() move the focus.
InDocument(w, e) ==
    \/ e = Body
    \/ e \in domAttached
    \/ e.kind \in {"ctx", "bar"} /\ WExists(w, e) /\ WGet(w, e).attached

\* l.133-136 on the widget at ref.
aboutToShowAt(w, ref) ==
    [WSet(w, ref, aboutToShow(WGet(w, ref))) EXCEPT !.shown = Append(@, ref)]

\* l.138-147. Menu.open returns at once when the menu is attached; otherwise it
\* attaches the menu and activates it, which focuses the menu's node.
open(w, ref) ==
    LET me == WGet(w, ref)
        previouslyActive == w.active
        connected == [me EXCEPT !.slots = Append(@, previouslyActive)]
    IN IF me.attached
       THEN WSet(w, ref, connected)
       ELSE [WSet(w, ref, [connected EXCEPT !.attached = TRUE,
                                            !.openedFrom = previouslyActive])
               EXCEPT !.active = ref]

\* l.141-144, the cb connected for one open: st is <<world, slots still
\* connected>>. A null previouslyActive makes focus() throw before the
\* disconnect; the signal catches the exception and the cb stays connected.
cb(previouslyActive, st) ==
    IF previouslyActive = Null
    THEN <<[st[1] EXCEPT !.threw = TRUE], Append(st[2], previouslyActive)>>
    ELSE <<[st[1] EXCEPT !.focusCalls = Append(@, previouslyActive),
                         !.active = IF InDocument(st[1], previouslyActive)
                                    THEN previouslyActive ELSE @],
           st[2]>>

RECURSIVE emitAboutToClose(_, _)
\* Signal.emit: the connected slots run in connection order.
emitAboutToClose(slots, st) ==
    IF slots = <<>> THEN st
    ELSE emitAboutToClose(Tail(slots), cb(Head(slots), st))

\* MenuBar._onMenuAboutToClose, connected by addMenu: the bar forgets its child menu.
onMenuAboutToClose(w, ref) ==
    IF ref.kind = "bar" /\ w.bars[ref.bar].childMenu = ref.index
    THEN [w EXCEPT !.bars[ref.bar].childMenu = 0, !.bars[ref.bar].activeIndex = 0]
    ELSE w

\* Menu.close(): aboutToClose is emitted only for an attached menu, which is
\* then detached; a focused node that leaves the document gives the focus to body.
close(w, ref) ==
    LET me == WGet(w, ref) IN
    IF ~me.attached THEN w
    ELSE LET w1 == onMenuAboutToClose(w, ref)
             st == emitAboutToClose(me.slots, <<w1, <<>> >>)
             w2 == WSet(st[1], ref, [WGet(st[1], ref) EXCEPT !.slots = st[2],
                                                           !.attached = FALSE,
                                                           !.openedFrom = Null])
         IN [w2 EXCEPT !.active = IF @ = ref THEN Body ELSE @]

\* MenuBar._openChildMenu of the base class, on bar b.
baseOpenChildMenu(w, b) ==
    LET newMenu == w.bars[b].activeIndex
        oldMenu == w.bars[b].childMenu
    IN IF newMenu = 0
       THEN IF oldMenu = 0 THEN w
            ELSE close([w EXCEPT !.bars[b].childMenu = 0, !.bars[b].activeIndex = 0],
                       BarRef(b, oldMenu))
       ELSE IF oldMenu = newMenu THEN w
       ELSE LET swapped == [w EXCEPT !.bars[b].childMenu = newMenu]
                closed == IF oldMenu # 0 THEN close(swapped, BarRef(b, oldMenu)) ELSE swapped
            IN open(closed, BarRef(b, newMenu))

\* l.111-116: the arrow function stored in DynamicMenuBarWidget.prototype; `self`
\* is the `this` of the constructor call that stored it.
openChildMenu(w, self) ==
    LET refreshed == IF w.bars[self].activeIndex # 0
                     THEN aboutToShowAt(w, BarRef(self, w.bars[self].activeIndex))
                     ELSE w
    IN baseOpenChildMenu(refreshed, self)

\* ------------------------------------------------------------ observations
Obs(op, target) ==
    [op |-> op, target |-> target, shown |-> <<>>, baseOn |-> 0, focusCalls |-> <<>>,
     threw |-> FALSE, wasAttached |-> FALSE, from |-> Null, slotsBefore |-> <<>>,
     commands |-> PhosphorCommandRegistry, path |-> <<>>]

ObsOf(op, target, w) ==
    [Obs(op, target) EXCEPT !.shown = w.shown, !.focusCalls = w.focusCalls,
                            !.threw = w.threw]

Commit(w) ==
    /\ ctx' = w.ctx
    /\ bars' = w.bars
    /\ activeElement' = w.active

\* ------------------------------- BrowserMainMenuFactory (l.36-59), as steps
\* new DynamicMenuBarWidget() followed by l.38-50. When createPhosporCommands
\* throws, the bar has been constructed and holds no menu.
MenuBar(menus) == [menus |-> menus, activeIndex |-> 0, childMenu |-> 0]

createMenuBar(b) ==
    LET menuModelRoot == menuModel
        created == createPhosporCommands(menuModelRoot)
        phosphorCommands == [created EXCEPT !.forceVisible = TRUE]
        RECURSIVE AddMenus(_, _)
        AddMenus(menus, i) ==
            IF i > Len(menuModelRoot.children) THEN menus
            ELSE LET menu == menuModelRoot.children[i] IN
                 IF menu.kind = "composite"
                 THEN AddMenus(Append(menus, DynamicMenuWidget(menu, phosphorCommands, <<i>>)), i + 1)
                 ELSE AddMenus(menus, i + 1)
    IN IF created.threw THEN MenuBar(<<>>) ELSE MenuBar(AddMenus(<<>>, 1))

NoWidgets == ctx = <<>> /\ bars = <<>>

CreateMenuBar ==
    /\ Len(bars) < MaxBars
    /\ bars' = Append(bars, createMenuBar(Len(bars) + 1))
    /\ hook' = Len(bars) + 1
    /\ last' = [Obs("createMenuBar", BarRef(Len(bars) + 1, 0))
                  EXCEPT !.threw = createPhosporCommands(menuModel).threw,
                         !.commands = createPhosporCommands(menuModel)]
    /\ UNCHANGED <<openerVars, menuModel, commandState, keybindings, ctx, activeElement,
                   domAttached, changes>>

\* l.53-59. One context menu is followed at a time: the next one is created
\* once the previous one is closed.
createContextMenu(path) ==
    LET menuModelAt == NodeAt(menuModel, path)
        phosphorCommands == createPhosporCommands(menuModelAt)
    IN IF phosphorCommands.threw THEN ctx
       ELSE <<DynamicMenuWidget(menuModelAt, phosphorCommands, path)>>

CreateContextMenu ==
    \E path \in CompositePaths(menuModel, <<>>) :
        /\ IF ctx = <<>> THEN TRUE ELSE ~ctx[1].attached
        /\ ctx' = createContextMenu(path)
        /\ last' = [Obs("createContextMenu", CtxRef)
                      EXCEPT !.threw = createPhosporCommands(NodeAt(menuModel, path)).threw,
                             !.commands = createPhosporCommands(NodeAt(menuModel, path)),
                             !.path = path]
        /\ UNCHANGED <<openerVars, menuModel, commandState, keybindings, bars, hook, activeElement,
                       domAttached, changes>>

\* --------------------------------------------------- menu view, as steps
Refs ==
    {r \in {CtxRef} \cup {BarRef(b, i) : b \in 1..MaxBars + 1, i \in 1..MaxNodes + 1} :
        WExists(World, r)}

\* open(x, y) called on the context menu.
OpenMenu ==
    /\ WExists(World, CtxRef)
    /\ Len(ctx[1].slots) < MaxSlots
    /\ LET w == open(World, CtxRef) IN
         /\ Commit(w)
         /\ last' = [ObsOf("open", CtxRef, w) EXCEPT !.wasAttached = ctx[1].attached,
                                                    !.from = activeElement]
    /\ UNCHANGED <<openerVars, menuModel, commandState, keybindings, hook, domAttached, changes>>

\* A menu is dismissed (click-away, escape, item activation or close()).
CloseMenu ==
    \E ref \in Refs :
        LET me == WGet(World, ref)
            w == close(World, ref)
        IN /\ Commit(w)
           /\ last' = [ObsOf("close", ref, w) EXCEPT !.wasAttached = me.attached,
                                                     !.from = me.openedFrom,
                                                     !.slotsBefore = me.slots]
           /\ UNCHANGED <<openerVars, menuModel, commandState, keybindings, hook, domAttached, changes>>

\* The user makes entry i of bar b the active one and the bar opens its child
\* menu: b._openChildMenu() resolves to the function stored in the prototype.
ActivateEntry ==
    \E b \in 1..Len(bars) : \E i \in 1..Len(bars[b].menus) :
        /\ \A r \in Refs : Len(WGet(World, r).slots) < MaxSlots
        /\ LET w0 == [World EXCEPT !.bars[b].activeIndex = i]
               w == openChildMenu(w0, hook)
           IN /\ Commit(w)
              /\ last' = [ObsOf("openChildMenu", BarRef(b, i), w)
                            EXCEPT !.baseOn = hook,
                                   !.wasAttached = bars[b].menus[i].attached]
        /\ UNCHANGED <<openerVars, menuModel, commandState, keybindings, hook, domAttached, changes>>

\* The submenu of item k of an attached menu becomes its visible child
\* (Menu._openChildMenu of the base class: no code of this file runs).
ShowSubmenu ==
    \E ref \in Refs : \E k \in 1..Len(WGet(World, ref).items) :
        /\ WGet(World, ref).attached
        /\ WGet(World, ref).items[k].type = "submenu"
        /\ last' = [Obs("showSubmenu", ref) EXCEPT !.baseOn = k]
        /\ UNCHANGED <<openerVars, menuModel, commandState, keybindings, ctx, bars, hook,
                       activeElement, domAttached, changes>>

\* --------------------------------------------------------- the environment
registerMenuAction(path, c) == AddNode(menuModel, path, ActionMenuNode(c))
registerSubmenu(path, sub) == AddNode(menuModel, path, CompositeMenuNode(sub))

ModelUnchanged == UNCHANGED <<openerVars, commandState, keybindings, ctx, bars, hook, activeElement, domAttached>>

\* Contributors fill the menu model before any menu widget exists.
BuildMenuAction ==
    /\ NoWidgets
    /\ NodeCount(menuModel) - 1 < MaxNodes
    /\ \E path \in CompositePaths(menuModel, <<>>), c \in Cmds :
           menuModel' = registerMenuAction(path, c)
    /\ last' = Obs("registerMenuAction", NoRef)
    /\ ModelUnchanged /\ UNCHANGED changes

BuildSubmenu ==
    /\ NoWidgets
    /\ NodeCount(menuModel) - 1 < MaxNodes
    /\ \E path \in CompositePaths(menuModel, <<>>), sub \in BOOLEAN :
           menuModel' = registerSubmenu(path, sub)
    /\ last' = Obs("registerSubmenu", NoRef)
    /\ ModelUnchanged /\ UNCHANGED changes

\* Contributors fill a model of groups: the root holds groups only, nothing is a submenu.
BuildGroup ==
    /\ NoWidgets
    /\ NodeCount(menuModel) - 1 < MaxGroupNodes
    /\ \E path \in CompositePaths(menuModel, <<>>) :
           menuModel' = registerSubmenu(path, FALSE)
    /\ last' = Obs("registerSubmenu", NoRef)
    /\ ModelUnchanged /\ UNCHANGED changes

BuildGroupAction ==
    /\ NoWidgets
    /\ NodeCount(menuModel) - 1 < MaxGroupNodes
    /\ \E path \in CompositePaths(menuModel, <<>>) \ {<<>>}, c \in Cmds :
           menuModel' = registerMenuAction(path, c)
    /\ last' = Obs("registerMenuAction", NoRef)
    /\ ModelUnchanged /\ UNCHANGED changes

\* Contributors and the application keep changing things later on.
RegisterMenuAction ==
    /\ changes < MaxChanges
    /\ \E path \in CompositePaths(menuModel, <<>>), c \in Cmds :
           menuModel' = registerMenuAction(path, c)
    /\ last' = Obs("registerMenuAction", NoRef)
    /\ changes' = changes + 1
    /\ ModelUnchanged

RegisterSubmenu ==
    /\ changes < MaxChanges
    /\ \E path \in CompositePaths(menuModel, <<>>), sub \in BOOLEAN :
           menuModel' = registerSubmenu(path, sub)
    /\ last' = Obs("registerSubmenu", NoRef)
    /\ changes' = changes + 1
    /\ ModelUnchanged

\* registerCommand / unregister / a change of context that flips isVisible.
ChangeCommandState ==
    /\ changes < MaxChanges
    /\ \E c \in Cmds : \E st \in CmdStates \ {commandState[c]} :
           commandState' = [commandState EXCEPT ![c] = st]
    /\ last' = Obs("commandState", NoRef)
    /\ changes' = changes + 1
    /\ UNCHANGED <<openerVars, menuModel, keybindings, ctx, bars, hook, activeElement, domAttached>>

BindingLists == {<<>>} \cup {<<x>> : x \in Bindings}
                     \cup {<<x, y>> : x \in Bindings, y \in Bindings}

ChangeKeybindings ==
    /\ changes < MaxChanges
    /\ \E c \in Cmds : \E bs \in BindingLists \ {keybindings[c]} :
           keybindings' = [keybindings EXCEPT ![c] = bs]
    /\ last' = Obs("keybindings", NoRef)
    /\ changes' = changes + 1
    /\ UNCHANGED <<openerVars, menuModel, commandState, ctx, bars, hook, activeElement, domAttached>>

\* The focus moves to another element of the document, or to none.
FocusElement ==
    /\ \E e \in (domAttached \cup {Body, Null}) \ {activeElement} :
           activeElement' = e
    /\ last' = Obs("focus", NoRef)
    /\ UNCHANGED <<openerVars, menuModel, commandState, keybindings, ctx, bars, hook, domAttached, changes>>

\* An element leaves the document; if it had the focus, body gets it.
DetachElement ==
    /\ \E e \in domAttached :
           /\ domAttached' = domAttached \ {e}
           /\ activeElement' = IF activeElement = e THEN Body ELSE activeElement
    /\ last' = Obs("detach", NoRef)
    /\ UNCHANGED <<openerVars, menuModel, commandState, keybindings, ctx, bars, hook, changes>>

\* ------------------------------------------------ WidgetOpenHandler (l.273-359)
\* A URI: what open is called with. Two of them differ by their fragment only.
Uris == {[path |-> "a", fragment |-> ""], [path |-> "a", fragment |-> "f"],
         [path |-> "b", fragment |-> ""]}

\* URI.withoutFragment() and URI.toString()
withoutFragment(uri) == [uri EXCEPT !.fragment = ""]
toString(uri) == IF uri.fragment = "" THEN <<uri.path>> ELSE <<uri.path, "#", uri.fragment>>

\* l.355-357
createWidgetOptions(uri, options) == toString(withoutFragment(uri))

WidgetKeys == {createWidgetOptions(uri, <<>>) : uri \in Uris}

\* The options of a call: none at all, or an object whose optional properties
\* are absent, present with the value undefined (mode), or set.
NoOptions == [given |-> FALSE, mode |-> "absent", widgetOptions |-> "absent"]
WidgetOpenerOptions(mode, widgetOptions) ==
    [given |-> TRUE, mode |-> mode, widgetOptions |-> widgetOptions]
OptionSets ==
    {NoOptions}
      \cup {WidgetOpenerOptions(m, "absent") : m \in {"absent", "undefined", "open"}}
      \cup {WidgetOpenerOptions("reveal", "side")}

\* A widget is the n-th one created for a key; its id is the widget itself.
Widget(key, n) == [key |-> key, gen |-> n]
NoWidget == [key |-> <<>>, gen |-> 0]
NoFailure == "-"
Failures == {"e1", "e2"}
NoCall == [uri |-> [path |-> "", fragment |-> ""], options |-> NoOptions,
           widget |-> NoWidget, failure |-> NoFailure, created |-> FALSE, hadWidget |-> FALSE]

RECURSIVE WidgetsMade(_, _)
\* Number of widgets the manager created so far for the keys in `keys`.
WidgetsMade(manager, keys) ==
    IF keys = {} THEN 0
    ELSE LET k == CHOOSE x \in keys : TRUE IN
         manager.made[k] + WidgetsMade(manager, keys \ {k})

\* Widget.isDisposed: the widget manager forgets a widget that is disposed.
isDisposed(widget, manager) == manager.live[widget.key] # widget.gen

\* Widget.isAttached
isAttached(widget, sh) == widget \in sh.attached

\* l.350-353, with WidgetManager.getOrCreateWidget: the widget held for the key
\* if there is one; else the factory runs and either gives a new widget, which
\* the manager then holds, or fails with `outcome`.
getOrCreateWidget(uri, options, manager, outcome) ==
    LET widgetOptions == createWidgetOptions(uri, options) IN
    IF manager.live[widgetOptions] # 0
    THEN [manager |-> manager, widget |-> Widget(widgetOptions, manager.live[widgetOptions]),
          failure |-> NoFailure, created |-> FALSE]
    ELSE IF outcome \in Failures
    THEN [manager |-> manager, widget |-> NoWidget, failure |-> outcome, created |-> FALSE]
    ELSE LET n == manager.made[widgetOptions] + 1 IN
         [manager |-> [manager EXCEPT !.live[widgetOptions] = n, !.made[widgetOptions] = n],
          widget |-> Widget(widgetOptions, n), failure |-> NoFailure, created |-> TRUE]

\* Variant: the mode of the options is not looked at.
opModeIgnoresOptions(options) == "activate"

\* l.317-320: { mode: 'activate', ...options }. A property that options holds
\* with the value undefined is copied by the spread like any other.
opMode(options) ==
    IF options.given /\ options.mode # "absent" THEN options.mode ELSE "activate"

\* l.322: op.widgetOptions || { area: 'main' }
opWidgetOptions(options) ==
    IF options.given /\ options.widgetOptions # "absent" THEN options.widgetOptions ELSE "main"

ShellCall(fn, widget, arg) == [fn |-> fn, widget |-> widget, arg |-> arg]

\* l.316-329. The result is the shell afterwards and the shell calls made, in order.
doOpen(widget, options, sh) ==
    LET added == IF ~isAttached(widget, sh)
                 THEN [shell |-> [sh EXCEPT !.attached = @ \cup {widget}],
                       calls |-> <<ShellCall("addWidget", widget, opWidgetOptions(options))>>]
                 ELSE [shell |-> sh, calls |-> <<>>]
    IN IF opMode(options) = "activate"
       THEN [shell |-> added.shell,
             calls |-> Append(added.calls, ShellCall("activateWidget", widget, "-"))]
       ELSE IF opMode(options) = "reveal"
       THEN [shell |-> added.shell,
             calls |-> Append(added.calls, ShellCall("revealWidget", widget, "-"))]
       ELSE added

\* Variant: a failure of the creation is caught and open returns nothing.
handlerOpenSwallows(call, sh) ==
    IF call.failure # NoFailure
    THEN [shell |-> sh, calls |-> <<>>, returned |-> NoWidget, rejected |-> NoFailure]
    ELSE LET did == doOpen(call.widget, call.options, sh) IN
         [shell |-> did.shell, calls |-> did.calls, returned |-> call.widget,
          rejected |-> NoFailure]

\* l.312-314, WidgetOpenHandler.open after its await: the failure of the
\* creation is thrown on, or doOpen runs and the widget is returned.
handlerOpen(call, sh) ==
    IF call.failure # NoFailure
    THEN [shell |-> sh, calls |-> <<>>, returned |-> NoWidget, rejected |-> call.failure]
    ELSE LET did == doOpen(call.widget, call.options, sh) IN
         [shell |-> did.shell, calls |-> did.calls, returned |-> call.widget,
          rejected |-> NoFailure]

\* What a call of open that finishes leaves behind.
Opened(call) ==
    [uri |-> call.uri, options |-> call.options, widget |-> call.widget,
     failure |-> call.failure, created |-> call.created, hadWidget |-> call.hadWidget,
     done |-> FALSE, returned |-> NoWidget, rejected |-> NoFailure, calls |-> <<>>,
     wasDisposed |-> FALSE, wasAttached |-> FALSE, shellBefore |-> [attached |-> {}]]

\* l.311-312: open runs up to the await of getOrCreateWidget.
Open ==
    /\ BagCardinality(pending) < MaxPending
    /\ \E uri \in Uris, options \in OptionSets, outcome \in {"ok"} \cup Failures :
         LET key == createWidgetOptions(uri, options)
             got == getOrCreateWidget(uri, options, widgetManager, outcome)
         IN /\ IF widgetManager.live[key] # 0 THEN outcome = "ok"
               ELSE outcome = "ok" => WidgetsMade(widgetManager, WidgetKeys) < MaxWidgets
            /\ widgetManager' = got.manager
            /\ pending' = pending (+) SetToBag({
                              [uri |-> uri, options |-> options, widget |-> got.widget,
                               failure |-> got.failure, created |-> got.created,
                               hadWidget |-> widgetManager.live[key] # 0]})
    /\ opened' = Opened(NoCall)
    /\ UNCHANGED <<menuModel, commandState, keybindings, ctx, bars, hook, activeElement,
                   domAttached, last, changes, shell>>

\* l.312-314: the promise is settled and open resumes: it rejects with the
\* failure of the creation, or runs doOpen and returns the widget.
ResumeOpen ==
    \E call \in BagToSet(pending) :
        LET did == handlerOpen(call, shell)
        IN /\ pending' = pending (-) SetToBag({call})
           /\ shell' = did.shell
           /\ opened' = [Opened(call) EXCEPT
                            !.done = TRUE, !.returned = did.returned,
                            !.rejected = did.rejected, !.calls = did.calls,
                            !.wasDisposed = call.widget # NoWidget
                                              /\ isDisposed(call.widget, widgetManager),
                            !.wasAttached = isAttached(call.widget, shell),
                            !.shellBefore = shell]
           /\ UNCHANGED <<menuModel, commandState, keybindings, ctx, bars, hook,
                          activeElement, domAttached, last, changes, widgetManager>>

\* A widget is closed: it is disposed, leaves the shell, and the widget manager
\* forgets it.
DisposeWidget ==
    /\ \E key \in WidgetKeys :
         LET widget == Widget(key, widgetManager.live[key]) IN
         /\ widgetManager.live[key] # 0
         /\ widgetManager' = [widgetManager EXCEPT !.live[key] = 0]
         /\ shell' = [attached |-> shell.attached \ {widget}]
    /\ opened' = Opened(NoCall)
    /\ UNCHANGED <<menuModel, commandState, keybindings, ctx, bars, hook, activeElement,
                   domAttached, last, changes, pending>>

InitOpener ==
    /\ widgetManager = [live |-> [k \in WidgetKeys |-> 0], made |-> [k \in WidgetKeys |-> 0]]
    /\ shell = [attached |-> {}]
    /\ pending = EmptyBag
    /\ opened = Opened(NoCall)

\* ------------------------------------------------------------ specifications
Root == CompositeMenuNode(FALSE)

InitCommon ==
    /\ keybindings = [c \in Cmds |-> <<>>]
    /\ ctx = <<>>
    /\ activeElement = El("editor")
    /\ domAttached = PlainElements
    /\ last = Obs("init", NoRef)
    /\ changes = 0
    /\ InitOpener

\* Projection: any model of at most MaxNodes nodes, one command registered and
\* visible and the other in any state, then one menu is created from it.
InitProj ==
    /\ menuModel = Root
    /\ commandState \in {f \in [Cmds -> CmdStates] : f["c1"] = "visible"}
    /\ bars = <<>>
    /\ hook = 0
    /\ InitCommon

ProjectContextMenu == NoWidgets /\ CreateContextMenu
ProjectMenuBar == NoWidgets /\ CreateMenuBar

NextProj ==
    \/ BuildMenuAction
    \/ BuildSubmenu
    \/ ProjectContextMenu
    \/ ProjectMenuBar

SpecProj == InitProj /\ [][NextProj]_vars

\* Projection of sibling groups: as SpecProj, over the models of at most
\* MaxGroupNodes nodes whose root holds groups only and that hold no submenu.
NextGroups ==
    \/ BuildGroup
    \/ BuildGroupAction
    \/ ProjectContextMenu
    \/ ProjectMenuBar

SpecGroups == InitProj /\ [][NextGroups]_vars

\* The model at startup of the later specifications: root[ File[ c1, More[ c2 ] ], Edit[] ],
\* File, More and Edit being submenus.
StartModel ==
    [Root EXCEPT !.children =
        << [CompositeMenuNode(TRUE) EXCEPT !.children =
               << ActionMenuNode("c1"),
                  [CompositeMenuNode(TRUE) EXCEPT !.children = <<ActionMenuNode("c2")>>] >>],
           CompositeMenuNode(TRUE) >>]

\* Showing: the application has started (BrowserMenuBarContribution.onStart,
\* l.225-230, has created the menu bar); then the model and the collaborators
\* change while menus are created, opened and closed.
InitShow ==
    /\ menuModel = StartModel
    /\ commandState \in {f \in [Cmds -> CmdStates] : f["c1"] = "visible"}
    /\ InitCommon
    /\ bars = <<createMenuBar(1)>>
    /\ hook = 1

\* A closed context menu is shown.
ShowContextMenu == (IF ctx = <<>> THEN FALSE ELSE ~ctx[1].attached) /\ OpenMenu

NextShow ==
    \/ RegisterMenuAction
    \/ RegisterSubmenu
    \/ ChangeCommandState
    \/ ChangeKeybindings
    \/ CreateContextMenu
    \/ ShowContextMenu
    \/ CloseMenu
    \/ ActivateEntry
    \/ ShowSubmenu

SpecShow == InitShow /\ [][NextShow]_vars

\* Keybindings: any model of at most MaxKeyNodes nodes, any keybindings, then
\* one menu is created from it.
BuildKeyedAction ==
    /\ NoWidgets
    /\ NodeCount(menuModel) - 1 < MaxKeyNodes
    /\ \E path \in CompositePaths(menuModel, <<>>), c \in Cmds :
           menuModel' = registerMenuAction(path, c)
    /\ last' = Obs("registerMenuAction", NoRef)
    /\ ModelUnchanged /\ UNCHANGED changes

BuildKeyedSubmenu ==
    /\ NoWidgets
    /\ NodeCount(menuModel) - 1 < MaxKeyNodes
    /\ \E path \in CompositePaths(menuModel, <<>>), sub \in BOOLEAN :
           menuModel' = registerSubmenu(path, sub)
    /\ last' = Obs("registerSubmenu", NoRef)
    /\ ModelUnchanged /\ UNCHANGED changes

InitKeys ==
    /\ menuModel = Root
    /\ commandState \in {f \in [Cmds -> CmdStates] : f["c1"] = "visible"}
    /\ keybindings \in [Cmds -> BindingLists]
    /\ ctx = <<>>
    /\ bars = <<>>
    /\ hook = 0
    /\ activeElement = El("editor")
    /\ domAttached = PlainElements
    /\ last = Obs("init", NoRef)
    /\ changes = 0
    /\ InitOpener

NextKeys ==
    \/ BuildKeyedAction
    \/ BuildKeyedSubmenu
    \/ ProjectContextMenu
    \/ ProjectMenuBar

SpecKeys == InitKeys /\ [][NextKeys]_vars

\* Menu bars: over a fixed model, menu bars are created and their entries
\* activated and dismissed.
InitLife ==
    /\ menuModel = StartModel
    /\ commandState = [c \in Cmds |-> "visible"]
    /\ InitCommon
    /\ bars = <<>>
    /\ hook = 0

NextBars ==
    \/ CreateMenuBar
    \/ ActivateEntry
    \/ CloseMenu

SpecBars == InitLife /\ [][NextBars]_vars

\* Focus: over a fixed model, a context menu is created, opened (also while it
\* is open) and closed while the focus moves and elements leave the document.
NextFocus ==
    \/ CreateContextMenu
    \/ OpenMenu
    \/ CloseMenu
    \/ FocusElement
    \/ DetachElement

SpecFocus == InitLife /\ [][NextFocus]_vars

\* Opening widgets: no menu is involved; open is called, resumes after its
\* await, and widgets are closed in between.
InitHandler ==
    /\ menuModel = Root
    /\ commandState = [c \in Cmds |-> "visible"]
    /\ InitCommon
    /\ bars = <<>>
    /\ hook = 0

NextOpen ==
    \/ Open
    \/ ResumeOpen
    \/ DisposeWidget

SpecOpen == InitHandler /\ [][NextOpen]_vars

\* ======================================================== claims: projection
\* What a claim says about a tree, counted on the model itself.
RECURSIVE VisibleLeaves(_, _)
\* Number of action leaves below node that commands.isVisible answers true for.
VisibleLeaves(node, commands) ==
    IF node.kind = "action"
    THEN IF isVisible(commands, node.commandId) THEN 1 ELSE 0
    ELSE LET RECURSIVE Sum(_)
             Sum(i) == IF i = 0 THEN 0
                       ELSE VisibleLeaves(node.children[i], commands) + Sum(i - 1)
         IN Sum(Len(node.children))

RECURSIVE AliveGroups(_, _)
\* Number of groups with a visible leaf that are inlined into node's own list
\* (children, and groups nested in groups; not those inside a submenu).
AliveGroups(node, commands) ==
    LET RECURSIVE Sum(_)
        Sum(i) ==
            IF i = 0 THEN 0
            ELSE LET child == node.children[i] IN
                 (IF child.kind = "composite" /\ ~child.isSubmenu
                  THEN (IF VisibleLeaves(child, commands) > 0 THEN 1 ELSE 0)
                       + AliveGroups(child, commands)
                  ELSE 0) + Sum(i - 1)
    IN Sum(Len(node.children))

SeparatorCount(items) ==
    Cardinality({k \in 1..Len(items) : items[k].type = "separator"})

RECURSIVE Pruned(_, _)
\* No submenu item wraps an empty list or a subtree without visible leaf, and in
\* every nested list there are at most as many separators as live groups.
Pruned(items, commands) ==
    \A k \in 1..Len(items) :
        items[k].type = "submenu" =>
            /\ items[k].items # <<>>
            /\ VisibleLeaves(NodeAt(menuModel, items[k].menu), commands) > 0
            /\ SeparatorCount(items[k].items)
                   <= AliveGroups(NodeAt(menuModel, items[k].menu), commands)
            /\ Pruned(items[k].items, commands)

Widgets == {WGet(World, r) : r \in Refs}

\* C1: a subtree without visible action leaf projects to the empty list, and an
\* empty group or submenu leaves nothing in its parent's list, at any depth: no
\* submenu item wrapping an empty list, no separator for an empty group.
C1_TransitivePruning ==
    \A w \in Widgets :
        LET node == NodeAt(menuModel, w.menu) IN
        /\ VisibleLeaves(node, w.options) = 0 => w.items = <<>>
        /\ Pruned(w.items, w.options)
        /\ SeparatorCount(w.items) <= AliveGroups(node, w.options)

\* A group that holds only submenus, each with children and none with a visible leaf.
OnlyEmptySubmenus(node, commands) ==
    /\ node.kind = "composite" /\ ~node.isSubmenu
    /\ Len(node.children) > 0
    /\ \A i \in 1..Len(node.children) :
           /\ node.children[i].kind = "composite"
           /\ node.children[i].isSubmenu
           /\ Len(node.children[i].children) > 0
           /\ VisibleLeaves(node.children[i], commands) = 0

\* A menu was projected whose node holds a visible action followed by a group of
\* only empty submenus: the group left nothing behind.
C1_Witness ==
    \E w \in Widgets :
        LET node == NodeAt(menuModel, w.menu) IN
        /\ Len(node.children) = 2
        /\ node.children[1].kind = "action"
        /\ OnlyEmptySubmenus(node.children[2], w.options)
        /\ w.items = <<CommandItem(node.children[1].commandId)>>

\* The groups among the children of node, and those that project to non-empty.
Groups(node) ==
    {i \in 1..Len(node.children) :
        node.children[i].kind = "composite" /\ ~node.children[i].isSubmenu}

GroupProjection(w, i) ==
    buildSubMenus(<<>>, NodeAt(menuModel, w.menu).children[i], w.options, Append(w.menu, i))

NonEmptyGroups(w) ==
    {i \in Groups(NodeAt(menuModel, w.menu)) : GroupProjection(w, i) # <<>>}

\* Whether child i alone leaves anything in the list of w's node.
Contributes(w, i) ==
    LET node == NodeAt(menuModel, w.menu) IN
    buildSubMenus(<<>>, [node EXCEPT !.children = <<node.children[i]>>], w.options, w.menu) # <<>>

\* 1 when the first child that leaves anything in the list is a group, else 0.
LeadingGroup(w) ==
    LET node == NodeAt(menuModel, w.menu)
        contributing == {i \in 1..Len(node.children) : Contributes(w, i)}
    IN IF contributing # {}
          /\ (CHOOSE i \in contributing : \A j \in contributing : i <= j) \in Groups(node)
       THEN 1 ELSE 0

RECURSIVE SumOver(_, _, _)
\* Sum over the indices in set of the separators of each group's own projection.
SumOver(w, set, acc) ==
    IF set = {} THEN acc
    ELSE LET i == CHOOSE x \in set : TRUE IN
         SumOver(w, set \ {i}, acc + SeparatorCount(GroupProjection(w, i)))

\* All children of w's node are groups, one of them projects to empty and one
\* to non-empty: the sibling groups G1..Gn of the claim, in its narrowest reading.
SiblingGroupsCase(w) ==
    LET node == NodeAt(menuModel, w.menu) IN
    /\ Groups(node) = 1..Len(node.children)
    /\ NonEmptyGroups(w) # {}
    /\ NonEmptyGroups(w) # Groups(node)

RECURSIVE ItemCount(_, _)
\* Number of command items for c in the list and in the lists of its submenus.
ItemCount(items, c) ==
    IF items = <<>> THEN 0
    ELSE (IF Head(items).type = "command" /\ Head(items).command = c THEN 1 ELSE 0)
         + ItemCount(Head(items).items, c) + ItemCount(Tail(items), c)

RECURSIVE LeafCount(_, _)
\* Number of action nodes for c at or below node.
LeafCount(node, c) ==
    IF node.kind = "action" THEN (IF node.commandId = c THEN 1 ELSE 0)
    ELSE LET RECURSIVE Sum(_)
             Sum(i) == IF i = 0 THEN 0 ELSE LeafCount(node.children[i], c) + Sum(i - 1)
         IN Sum(Len(node.children))

\* C3 as stated: no command item is emitted for a command id that getCommand
\* does not resolve, in a context menu and in a menu of the menu bar alike.
C3_NoItemForUnresolved ==
    \A w \in Widgets : \A c \in Cmds :
        ~getCommand(c) => ItemCount(w.items, c) = 0

\* C4: an action whose resolved command reports visible = false is left out of
\* a context menu and kept, at every depth, in a menu of the menu bar.
C4_HiddenOmittedUnlessMenuBar ==
    \A w \in Widgets : \A c \in Cmds :
        commandState[c] = "hidden" =>
            ItemCount(w.items, c) =
                IF w.options.forceVisible
                THEN LeafCount(NodeAt(menuModel, w.menu), c) ELSE 0

\* A menu of the menu bar holds, inside a nested submenu, the item of a command
\* that reports visible = false.
C4_Witness ==
    \E w \in Widgets : \E c \in Cmds :
        /\ commandState[c] = "hidden"
        /\ w.options.forceVisible
        /\ \E k \in 1..Len(w.items) :
               /\ w.items[k].type = "submenu"
               /\ ItemCount(w.items[k].items, c) > 0

RECURSIVE WellFormed(_)
\* No separator first, last, or next to another one, in the list and in the
\* list of every submenu item in it.
WellFormed(items) ==
    /\ items # <<>> =>
           /\ items[1].type # "separator"
           /\ items[Len(items)].type # "separator"
    /\ \A k \in 1..Len(items) - 1 :
           ~(items[k].type = "separator" /\ items[k + 1].type = "separator")
    /\ \A k \in 1..Len(items) :
           items[k].type = "submenu" => WellFormed(items[k].items)

\* C18: in every item list that buildSubMenus produces, top-level or of a nested
\* submenu, no separator comes first, last, or next to another one, and there
\* are no more separators than groups with something to show (each separator
\* stands above the items of one such group, below earlier output).
C18_SeparatorsWellFormed ==
    \A w \in Widgets :
        /\ WellFormed(w.items)
        /\ SeparatorCount(w.items) <= AliveGroups(NodeAt(menuModel, w.menu), w.options)
        /\ Pruned(w.items, w.options)

\* A menu holds a submenu whose own list is a command, a separator and the
\* command of a group.
C18_Witness ==
    \E w \in Widgets : \E k \in 1..Len(w.items) :
        /\ w.items[k].type = "submenu"
        /\ Len(w.items[k].items) = 3
        /\ w.items[k].items[1].type = "command"
        /\ w.items[k].items[2].type = "separator"
        /\ w.items[k].items[3].type = "command"

\* C10 as stated: the menu bar gets no entry for a root-level composite child
\* whose projection is empty.
C10_NoEmptyBarEntry ==
    last.op = "createMenuBar" =>
        \A b \in 1..Len(bars) : \A i \in 1..Len(bars[b].menus) :
            bars[b].menus[i].items # <<>>

\* ======================================================= claims: command set
\* The addKeyBinding calls made for command c while a registry was built.
KeyBindingsOf(commands, c) ==
    SelectSeq(commands.keyBindings, LAMBDA kb : kb.command = c)

\* What the claim expects for c: acceleratorFor of the first binding, or nothing.
ExpectedKeyBindings(c) ==
    IF keybindings[c] = <<>> THEN <<>>
    ELSE <<[command |-> c, keys |-> acceleratorFor(keybindings[c][1])]>>

Created == last.op \in {"createMenuBar", "createContextMenu"}

\* C11: in the command set built for a menu, a resolved command with bindings
\* [B1, B2, ...] has exactly one accelerator, acceleratorFor(B1), and a command
\* without bindings has none; every resolved command of the subtree is in the
\* set when building it did not throw.
C11_FirstKeybindingOnly ==
    Created =>
        /\ \A c \in last.commands.ids :
               KeyBindingsOf(last.commands, c) = ExpectedKeyBindings(c)
        /\ \A c \in Cmds \ last.commands.ids :
               KeyBindingsOf(last.commands, c) = <<>>
        /\ ~last.threw =>
               \A c \in Cmds :
                   (getCommand(c) /\ LeafCount(NodeAt(menuModel, last.path), c) > 0)
                       => c \in last.commands.ids

\* A command set was built for a menu holding a command with two different
\* bindings and a command with none: one accelerator, that of the first binding.
C11_Witness ==
    /\ Created /\ ~last.threw
    /\ \E c \in last.commands.ids :
           /\ Len(keybindings[c]) = 2
           /\ acceleratorFor(keybindings[c][1]) # acceleratorFor(keybindings[c][2])
           /\ KeyBindingsOf(last.commands, c)
                  = <<[command |-> c, keys |-> acceleratorFor(keybindings[c][1])]>>
    /\ \E c \in last.commands.ids :
           keybindings[c] = <<>> /\ KeyBindingsOf(last.commands, c) = <<>>

\* The addCommand calls made for command c while a registry was built.
AddCommandCallsOf(commands, c) ==
    SelectSeq(commands.addCommandCalls, LAMBDA id : id = c)

\* C20 as stated: while the command set of a menu is built, addCommand and
\* addKeyBinding are each called at most once per command id, however many
\* action nodes of the subtree refer to it.
C20_RegisteredAtMostOnce ==
    Created =>
        \A c \in Cmds :
            /\ Len(AddCommandCallsOf(last.commands, c)) <= 1
            /\ Len(KeyBindingsOf(last.commands, c)) <= 1

\* ===================================================== claims: opening widgets
ShellCallsOn(calls, fn) == SelectSeq(calls, LAMBDA c : c.fn = fn)

\* C12 as stated: when the widget was disposed while open was awaiting, open
\* makes no shell call for it.
C12_NoShellCallOnDisposed ==
    (opened.done /\ opened.wasDisposed) => opened.calls = <<>>

\* A call of open with mode 'reveal' finished, for a uri whose key the widget
\* manager held a widget for when open was called.
RevealOfExisting ==
    /\ opened.done
    /\ opened.options.given /\ opened.options.mode = "reveal"
    /\ opened.hadWidget

\* C13: open(uri, {mode: 'reveal'}) on a uri whose key the widget manager holds a
\* widget for returns that widget (the one of the uri without its fragment)
\* without creating one, calls revealWidget on it exactly once, never
\* activateWidget, and addWidget exactly when the widget is not attached.
C13_RevealExisting ==
    RevealOfExisting =>
        /\ opened.returned = opened.widget
        /\ opened.returned.key = <<opened.uri.path>>
        /\ opened.returned.gen >= 1
        /\ ~opened.created
        /\ ShellCallsOn(opened.calls, "revealWidget")
               = <<ShellCall("revealWidget", opened.returned, "-")>>
        /\ ShellCallsOn(opened.calls, "activateWidget") = <<>>
        /\ Len(ShellCallsOn(opened.calls, "addWidget"))
               = IF opened.wasAttached THEN 0 ELSE 1
        /\ opened.calls[Len(opened.calls)].fn = "revealWidget"

\* Such a call finished for a uri with a fragment, on a widget that was attached.
C13_Witness ==
    /\ RevealOfExisting
    /\ opened.uri.fragment # ""
    /\ opened.wasAttached
    /\ opened.calls = <<ShellCall("revealWidget", opened.returned, "-")>>

\* C14: when the creation of the widget fails, open rejects with that failure,
\* returns nothing and makes no shell call; the shell is left as it was.
C14_CreationFailurePropagates ==
    (opened.done /\ opened.failure # NoFailure) =>
        /\ opened.rejected = opened.failure
        /\ opened.returned = NoWidget
        /\ opened.calls = <<>>
        /\ shell = opened.shellBefore

\* Open was called when other widgets were attached, the creation failed with
\* the second of the failures, and open rejected with it.
C14_Witness ==
    /\ opened.done
    /\ opened.failure = "e2"
    /\ opened.rejected = "e2"
    /\ shell.attached # {}

\* C16 as stated: with no options, or with options whose mode is absent or
\* undefined, open calls activateWidget exactly once and never revealWidget;
\* with mode 'open' it calls neither.
C16_ModeDefaultsToActivate ==
    opened.done /\ opened.failure = NoFailure =>
        /\ (~opened.options.given \/ opened.options.mode \in {"absent", "undefined"}) =>
               /\ ShellCallsOn(opened.calls, "activateWidget")
                      = <<ShellCall("activateWidget", opened.widget, "-")>>
               /\ ShellCallsOn(opened.calls, "revealWidget") = <<>>
        /\ (opened.options.given /\ opened.options.mode = "open") =>
               /\ ShellCallsOn(opened.calls, "activateWidget") = <<>>
               /\ ShellCallsOn(opened.calls, "revealWidget") = <<>>

\* ============================================================ claims: showing
\* What projecting w's node now, with w's own command registry, gives.
CurrentProjection(w) ==
    buildSubMenus(<<>>, NodeAt(menuModel, w.menu), w.options, w.menu)

\* C5 as stated: every show request, open(x, y) on a context menu included,
\* re-runs the projection: once shown, the items are the projection of the
\* state at that time.
C5_ShowReprojects ==
    /\ (last.op = "open" /\ ~last.wasAttached) =>
           ctx[1].items = CurrentProjection(ctx[1])
    /\ last.op = "openChildMenu" =>
           \A k \in 1..Len(last.shown) :
               WGet(World, last.shown[k]).items = CurrentProjection(WGet(World, last.shown[k]))

\* The node whose subtree the command registry of the widget at ref was built from.
RegistryRoot(ref) ==
    IF ref.kind = "ctx" THEN NodeAt(menuModel, ctx[1].menu) ELSE menuModel

\* The widget at ref holds the commands and accelerators that the collaborators
\* report now.
CommandsAreCurrent(ref) ==
    LET now == createPhosporCommands(RegistryRoot(ref))
        held == WGet(World, ref).options
    IN ~now.threw => held.ids = now.ids /\ held.keyBindings = now.keyBindings

\* C6 as stated: the commands and accelerators used for a show are those the
\* collaborators report at the time of the show.
C6_ShowUsesCurrentCommands ==
    /\ (last.op = "open" /\ ~last.wasAttached) => CommandsAreCurrent(CtxRef)
    /\ last.op = "openChildMenu" =>
           \A k \in 1..Len(last.shown) : CommandsAreCurrent(last.shown[k])

\* C7 as stated: the items of a nested submenu are the projection of the state
\* at the moment the submenu is shown.
C7_SubmenuProjectedWhenShown ==
    last.op = "showSubmenu" =>
        LET w == WGet(World, last.target)
            submenu == w.items[last.baseOn]
        IN submenu.items =
               buildSubMenus(<<>>, NodeAt(menuModel, submenu.menu), w.options, submenu.menu)

\* C15: after aboutToShow has run, once or several times in a row, the items of
\* the widget are those of one projection of its node, and running it again
\* with nothing changed leaves exactly these items: nothing accumulates.
C15_AboutToShowIdempotent ==
    last.op = "openChildMenu" =>
        \A k \in 1..Len(last.shown) :
            LET w == WGet(World, last.shown[k]) IN
            /\ w.items = DynamicMenuWidget(NodeAt(menuModel, w.menu), w.options, w.menu).items
            /\ aboutToShow(w).items = w.items
            /\ aboutToShow(aboutToShow(w)).items = w.items

\* aboutToShow ran on an entry that an earlier activation had already shown and
\* that holds a command and a submenu.
C15_Witness ==
    /\ last.op = "openChildMenu"
    /\ last.wasAttached
    /\ last.shown = <<last.target>>
    /\ LET w == WGet(World, last.target) IN
         /\ Len(w.items) = 2
         /\ w.items[1].type = "command"
         /\ w.items[2].type = "submenu"

\* ========================================================== claims: lifecycle
NoNullIn(slots) == \A k \in 1..Len(slots) : slots[k] # Null

\* C8 as stated: closing an open menu restores the focus exactly once, to the
\* element that had it just before the menu opened, and leaves no cb connected;
\* closing a menu that is not open restores nothing. (Stated for menus whose
\* opens all found an element in focus.)
C8_FocusRestoredOnce ==
    last.op = "close" =>
        /\ (last.wasAttached /\ NoNullIn(last.slotsBefore)) =>
               /\ last.focusCalls = <<last.from>>
               /\ WGet(World, last.target).slots = <<>>
               /\ InDocument(World, last.from) => activeElement = last.from
        /\ ~last.wasAttached => last.focusCalls = <<>>

\* C9 as stated: when the user activates an entry of a menu bar, aboutToShow
\* runs on that entry only and the base _openChildMenu runs for that bar.
C9_AboutToShowOnActiveEntry ==
    last.op = "openChildMenu" =>
        /\ last.shown = <<last.target>>
        /\ last.baseOn = last.target.bar

\* The element captured by an open is gone when the menu closes: it has left
\* the document, or no element had the focus when the menu was opened.
Gone(e) == e = Null \/ e \in PlainElements \ domAttached

\* C17 as stated: when a menu closes and the element captured at open time is
\* gone, focus() is not called on it, the close callback raises no error, and
\* no callback stays connected (so that nothing is retried at a later close).
C17_RestorationSkipped ==
    (last.op = "close" /\ last.wasAttached) =>
        \A k \in 1..Len(last.slotsBefore) :
            Gone(last.slotsBefore[k]) =>
                /\ \A j \in 1..Len(last.focusCalls) :
                       last.focusCalls[j] # last.slotsBefore[k]
                /\ ~last.threw
                /\ WGet(World, last.target).slots = <<>>

\* C19 as stated: whatever menu bars were constructed since, opening a child
\* menu on bar B refreshes only menus of B and runs the base _openChildMenu on B.
C19_MenuBarsIndependent ==
    last.op = "openChildMenu" =>
        LET B == last.target.bar IN
        /\ \A k \in 1..Len(last.shown) : last.shown[k].bar = B
        /\ last.baseOn = B
        /\ bars[B].childMenu = last.target.index

====
